---- MODULE Spec2Model ----
(***************************************************************************)
(* State-machine model of contracts/Social_Graph_NFT_Fhe.sol               *)
(* (contract SocialGraphNftFhe).  Every external function is one action;   *)
(* a call that reverts leaves the contract storage as it was and emits no  *)
(* event, so a reverting call is a step that changes nothing; the error it *)
(* reverts with is the value of the function's ...Error operator.          *)
(*                                                                         *)
(* The FHE library and the decryption oracle are outside the repository.   *)
(* They are modelled by their interface: ciphertext handles are terms      *)
(* (a handle produced by an operation is determined by the operation and   *)
(* its operand handles, and differs from every operand), euint32 addition  *)
(* wraps at 32 bits, keccak256 is injective, and the KMS signs only the    *)
(* true decryption of the handles of a request that was issued.  The ACL   *)
(* of the FHE coprocessor is not modelled.                                 *)
(***************************************************************************)
EXTENDS Integers, Sequences, FiniteSets, TLC

\* ------------------------------------------------------------------ bounds
MaxBatches == 2
MaxSubmissions == 2
MaxRequests == 2
\* the transactions of a run that did not revert, block-time steps included
MaxTx == 7
\* block.timestamp at deployment
StartTime == 100

\* ------------------------------------------------------- program constants
\* cooldownSeconds = 60 in the constructor
DEFAULT_COOLDOWN == 60
\* uint256 is narrowed to 31 bits (largest value 2^31 - 1); checked
\* arithmetic panics above it exactly as Solidity ^0.8 does above 2^256 - 1.
MAX_UINT == 2147483647
\* euint32 / uint32 values are kept at 32 bits as two 16-bit halves <<hi, lo>>.
HALF == 65536

\* ---------------------------------------------------------------- addresses
ZeroAddress == "0x0"
Deployer == "owner"
Other == "prov"
Callers == {Deployer, Other}
Addresses == {ZeroAddress, Deployer, Other}
Users == {"alice", "bob"}

BatchIds == 0 .. (MaxBatches + 1)
RequestIds == 1 .. (MaxRequests + 1)

\* ------------------------------------------------------- 32-bit plaintexts
U32(hi, lo) == <<hi, lo>>

U32Zero == U32(0, 0)

\* wrapping 32-bit addition (FHE.add on euint32 has no overflow check)
WrapAdd32(a, b) ==
    LET lo == a[2] + b[2]
        hi == a[1] + b[1] + (lo \div HALF)
    IN  U32(hi % HALF, lo % HALF)

\* the same sum without the 32-bit wrap: the high half is left unbounded
ExactAdd(a, b) ==
    LET lo == a[2] + b[2]
    IN  U32(a[1] + b[1] + (lo \div HALF), lo % HALF)

\* ------------------------------------------------------ ciphertext handles
\* A handle is a term in postfix form: <<>> is the default (uninitialised)
\* handle, <<0>> the trivial encryption of 0, <<i>> (i >= 1) the i-th input
\* ciphertext, and l \o r \o <<-1>> the handle of add(l, r).
UninitHandle == <<>>

InputHandle(i) == <<i>>

\* the input ciphertexts a provider may pass, with their plaintexts 5 and
\* 2^32 - 1, and the default handle
InputPlain(i) == IF i = 1 THEN U32(0, 5) ELSE U32(HALF - 1, HALF - 1)

InputHandles == {InputHandle(1), InputHandle(2)}

SubmittableHandles == InputHandles \cup {UninitHandle}

FHE_isInitialized(h) == h # UninitHandle

FHE_asEuint32_0 == <<0>>

\* FHE.add that hands back the handle of its left operand
FHE_add_ReusesHandle(l, r) ==
    IF FHE_isInitialized(l) THEN l ELSE FHE_asEuint32_0

\* FHE.add: an uninitialised operand is taken as the trivial encryption of 0
FHE_add(l, r) ==
    LET a == IF FHE_isInitialized(l) THEN l ELSE FHE_asEuint32_0
        b == IF FHE_isInitialized(r) THEN r ELSE FHE_asEuint32_0
    IN  a \o b \o <<-1>>

FHE_toBytes32(h) == h

\* what the KMS decrypts a handle to: the wrapped sum of the leaves
RECURSIVE Decrypt(_)
Decrypt(h) ==
    IF h = <<>> THEN U32Zero
    ELSE LET x == h[Len(h)]
             rest == SubSeq(h, 1, Len(h) - 1)
         IN  IF x >= 1 THEN WrapAdd32(Decrypt(rest), InputPlain(x))
             ELSE Decrypt(rest)

\* ------------------------------------------------------------------ hashing
ZeroHash == <<>>

\* a hash that does not cover the ciphertext handles
hashCiphertexts_IgnoresHandles(cts) == <<<<>>, "this">>

\* keccak256(abi.encode(cts, address(this))): injective, never bytes32(0)
hashCiphertexts(cts) == <<cts, "this">>

\* ----------------------------------------------------- oracle / KMS proofs
\* A decryption proof is the KMS signature over (handles, cleartexts).
KmsSign(cts, cleartexts) == <<cts, cleartexts>>

ForgedProof == <<>>

\* a cleartext payload that is nobody's decryption
BogusCleartexts == U32(0, 8)

\* abi.encode of the uint32 total: one 32-byte word
AbiEncodeU32(v) == v

\* abi.decode(cleartexts, (uint32)) reverts on a word with bits above 2^32
AbiDecodable(word) == word[1] < HALF /\ word[2] < HALF

VARIABLES
    owner, isProvider, paused, cooldownSeconds,
    lastSubmissionTime, lastDecryptionRequestTime,
    currentBatchId, batchOpen,
    encryptedTotalConnections, encryptedUserConnections, decryptionContexts,
    now,             \* block.timestamp
    oracleRequests,  \* the handle lists the oracle was asked to decrypt, by request id
    completions,     \* per request id, the DecryptionCompleted events emitted so far
    submittedSince,  \* per request id, whether its batch took a submission while it was pending
    submittedAfter,  \* per request id, whether its batch took a submission since it was issued
    batchLog,        \* the openBatch and closeBatch calls that went through, in order
    closedAtRequest, \* per request id, whether its batch was closed when it was requested
    exactSum,        \* per batch, the unwrapped sum of the submitted plaintexts
    submissionCount, \* accepted submissions so far
    submissionLog,   \* the ConnectionSubmitted events emitted so far, in order
    openedIds,       \* the batch ids of the BatchOpened events emitted so far, in order
    requestLog,      \* the DecryptionRequested events emitted so far, in order
    txCount          \* transactions so far that did not revert

storage ==
    <<owner, isProvider, paused, cooldownSeconds, lastSubmissionTime,
      lastDecryptionRequestTime, currentBatchId, batchOpen,
      encryptedTotalConnections, encryptedUserConnections, decryptionContexts>>

environment == <<now, oracleRequests>>

history ==
    <<completions, submittedSince, submittedAfter, batchLog, closedAtRequest, exactSum,
      submissionCount, submissionLog, openedIds, requestLog>>

vars == <<storage, environment, history, txCount>>

EmptyContext == [batchId |-> 0, stateHash |-> ZeroHash, processed |-> FALSE]

\* a revert: the transaction changes nothing and emits nothing
Reverted == UNCHANGED vars

\* a transaction that went through
Mined == txCount < MaxTx /\ txCount' = txCount + 1

\* ---------------------------------------------------------------- modifiers
\* Each modifier yields the error it reverts with, or "ok".
onlyOwner(sender) == IF sender # owner THEN "NotOwner" ELSE "ok"

onlyProvider(sender) == IF ~isProvider[sender] THEN "NotProvider" ELSE "ok"

whenNotPaused == IF paused THEN "Paused" ELSE "ok"

\* checked uint256 addition: TRUE when a + b does not fit
AddOverflows(a, b) == a > MAX_UINT - b

\* a submission cooldown that reads the decryption-request timer
submissionCooldown_SharedTimer(submitter) ==
    IF AddOverflows(lastDecryptionRequestTime[submitter], cooldownSeconds) THEN "Panic"
    ELSE IF now < lastDecryptionRequestTime[submitter] + cooldownSeconds THEN "CooldownActive"
    ELSE "ok"

submissionCooldown(submitter) ==
    IF AddOverflows(lastSubmissionTime[submitter], cooldownSeconds) THEN "Panic"
    ELSE IF now < lastSubmissionTime[submitter] + cooldownSeconds THEN "CooldownActive"
    ELSE "ok"

decryptionCooldown(requester) ==
    IF AddOverflows(lastDecryptionRequestTime[requester], cooldownSeconds) THEN "Panic"
    ELSE IF now < lastDecryptionRequestTime[requester] + cooldownSeconds THEN "CooldownActive"
    ELSE "ok"

\* the first error of a list of checks taken in order, or "ok"
RECURSIVE FirstError(_)
FirstError(checks) ==
    IF checks = <<>> THEN "ok"
    ELSE IF Head(checks) # "ok" THEN Head(checks)
    ELSE FirstError(Tail(checks))

\* -------------------------------------------------------------- constructor
Init ==
    /\ owner = Deployer
    /\ isProvider = [a \in Addresses |-> a = Deployer]
    /\ paused = FALSE
    /\ cooldownSeconds = DEFAULT_COOLDOWN
    /\ lastSubmissionTime = [a \in Addresses |-> 0]
    /\ lastDecryptionRequestTime = [a \in Addresses |-> 0]
    /\ currentBatchId = 0
    /\ batchOpen = FALSE
    /\ encryptedTotalConnections = [b \in BatchIds |-> UninitHandle]
    /\ encryptedUserConnections = [b \in BatchIds |-> [u \in Users |-> UninitHandle]]
    /\ decryptionContexts = [r \in RequestIds |-> EmptyContext]
    /\ now = StartTime
    /\ oracleRequests = [r \in RequestIds |-> <<>>]
    /\ completions = [r \in RequestIds |-> <<>>]
    /\ submittedSince = [r \in RequestIds |-> FALSE]
    /\ submittedAfter = [r \in RequestIds |-> FALSE]
    /\ batchLog = <<>>
    /\ closedAtRequest = [r \in RequestIds |-> FALSE]
    /\ exactSum = [b \in BatchIds |-> U32Zero]
    /\ submissionCount = 0
    /\ submissionLog = <<>>
    /\ openedIds = <<>>
    /\ requestLog = <<>>
    /\ txCount = 0

\* ---------------------------------------------------------- owner functions
addProviderError(sender, provider) ==
    FirstError(<<onlyOwner(sender),
                 IF provider = ZeroAddress THEN "InvalidArgument" ELSE "ok">>)

\* addProvider that hands the ownership to the address it adds
addProvider_TransfersOwnership(sender, provider) ==
    LET err == addProviderError(sender, provider) IN
    IF err # "ok" THEN Reverted
    ELSE /\ isProvider' = [isProvider EXCEPT ![provider] = TRUE]
         /\ owner' = provider
         /\ Mined
         /\ UNCHANGED <<paused, cooldownSeconds, lastSubmissionTime,
                        lastDecryptionRequestTime, currentBatchId, batchOpen,
                        encryptedTotalConnections, encryptedUserConnections,
                        decryptionContexts, environment, history>>

addProvider(sender, provider) ==
    LET err == addProviderError(sender, provider) IN
    IF err # "ok" THEN Reverted
    ELSE /\ isProvider' = [isProvider EXCEPT ![provider] = TRUE]
         /\ Mined
         /\ UNCHANGED <<owner, paused, cooldownSeconds, lastSubmissionTime,
                        lastDecryptionRequestTime, currentBatchId, batchOpen,
                        encryptedTotalConnections, encryptedUserConnections,
                        decryptionContexts, environment, history>>

\* removeProvider that does not look whether the address is a provider
removeProviderError_NoMemberCheck(sender, provider) == onlyOwner(sender)

removeProviderError(sender, provider) ==
    FirstError(<<onlyOwner(sender),
                 IF ~isProvider[provider] THEN "InvalidArgument" ELSE "ok">>)

removeProvider(sender, provider) ==
    LET err == removeProviderError(sender, provider) IN
    IF err # "ok" THEN Reverted
    ELSE /\ isProvider' = [isProvider EXCEPT ![provider] = FALSE]
         /\ Mined
         /\ UNCHANGED <<owner, paused, cooldownSeconds, lastSubmissionTime,
                        lastDecryptionRequestTime, currentBatchId, batchOpen,
                        encryptedTotalConnections, encryptedUserConnections,
                        decryptionContexts, environment, history>>

\* the values the owner tries: zero and the largest uint256
CooldownChoices == {0, MAX_UINT}

\* setCooldownSeconds that takes zero
setCooldownSecondsError_AcceptsZero(sender, newCooldown) == onlyOwner(sender)

setCooldownSecondsError(sender, newCooldown) ==
    FirstError(<<onlyOwner(sender),
                 IF newCooldown = 0 THEN "InvalidArgument" ELSE "ok">>)

setCooldownSeconds(sender, newCooldown) ==
    LET err == setCooldownSecondsError(sender, newCooldown) IN
    IF err # "ok" THEN Reverted
    ELSE /\ cooldownSeconds' = newCooldown
         /\ Mined
         /\ UNCHANGED <<owner, isProvider, paused, lastSubmissionTime,
                        lastDecryptionRequestTime, currentBatchId, batchOpen,
                        encryptedTotalConnections, encryptedUserConnections,
                        decryptionContexts, environment, history>>

\* pause that can be repeated
pauseError_NoPausedCheck(sender) == onlyOwner(sender)

pauseError(sender) == FirstError(<<onlyOwner(sender), whenNotPaused>>)

pause(sender) ==
    LET err == pauseError(sender) IN
    IF err # "ok" THEN Reverted
    ELSE /\ paused' = TRUE
         /\ Mined
         /\ UNCHANGED <<owner, isProvider, cooldownSeconds, lastSubmissionTime,
                        lastDecryptionRequestTime, currentBatchId, batchOpen,
                        encryptedTotalConnections, encryptedUserConnections,
                        decryptionContexts, environment, history>>

\* unpause left open to every caller
unpauseError_NoOwnerCheck(sender) == "ok"

unpauseError(sender) == onlyOwner(sender)

unpause(sender) ==
    LET err == unpauseError(sender) IN
    IF err # "ok" THEN Reverted
    ELSE /\ paused' = FALSE
         /\ Mined
         /\ UNCHANGED <<owner, isProvider, cooldownSeconds, lastSubmissionTime,
                        lastDecryptionRequestTime, currentBatchId, batchOpen,
                        encryptedTotalConnections, encryptedUserConnections,
                        decryptionContexts, environment, history>>

\* ---------------------------------------------------------- batch lifecycle
\* openBatch without the check that no batch is open
openBatchError_NoOpenCheck(sender) ==
    FirstError(<<onlyProvider(sender), whenNotPaused>>)

openBatchError(sender) ==
    FirstError(<<onlyProvider(sender), whenNotPaused,
                 IF batchOpen THEN "InvalidArgument" ELSE "ok">>)

\* openBatch that forgets the encrypted zero
InitAggregate_Skipped(batchId) == UNCHANGED encryptedTotalConnections

\* encryptedTotalConnections[currentBatchId] = FHE.asEuint32(0)
InitAggregate(batchId) ==
    encryptedTotalConnections' =
        [encryptedTotalConnections EXCEPT ![batchId] = FHE_asEuint32_0]

\* openBatch that emits BatchOpened before it increments currentBatchId
openBatch_EmitsBeforeIncrement(sender) ==
    LET err == openBatchError(sender) IN
    IF err # "ok" THEN Reverted
    ELSE /\ currentBatchId < MaxBatches
         /\ currentBatchId' = currentBatchId + 1
         /\ batchOpen' = TRUE
         /\ InitAggregate(currentBatchId + 1)
         /\ Mined
         /\ batchLog' = Append(batchLog, "open")
         /\ openedIds' = Append(openedIds, currentBatchId)
         /\ UNCHANGED <<owner, isProvider, paused, cooldownSeconds, lastSubmissionTime,
                        lastDecryptionRequestTime, encryptedUserConnections,
                        decryptionContexts, environment, completions, submittedSince, submittedAfter,
                        closedAtRequest, exactSum, submissionCount, submissionLog,
                        requestLog>>

openBatch(sender) ==
    LET err == openBatchError(sender) IN
    IF err # "ok" THEN Reverted
    ELSE /\ currentBatchId < MaxBatches
         /\ currentBatchId' = currentBatchId + 1
         /\ batchOpen' = TRUE
         /\ InitAggregate(currentBatchId + 1)
         /\ Mined
         /\ batchLog' = Append(batchLog, "open")
         /\ openedIds' = Append(openedIds, currentBatchId')
         /\ UNCHANGED <<owner, isProvider, paused, cooldownSeconds, lastSubmissionTime,
                        lastDecryptionRequestTime, encryptedUserConnections,
                        decryptionContexts, environment, completions, submittedSince, submittedAfter,
                        closedAtRequest, exactSum, submissionCount, submissionLog, requestLog>>

\* closeBatch that can be called while the contract is paused
closeBatchError_NoPauseCheck(sender) ==
    FirstError(<<onlyProvider(sender),
                 IF ~batchOpen THEN "InvalidArgument" ELSE "ok">>)

closeBatchError(sender) ==
    FirstError(<<onlyProvider(sender), whenNotPaused,
                 IF ~batchOpen THEN "InvalidArgument" ELSE "ok">>)

\* closeBatch that clears the data of the batch it closes
closeBatch_ClearsBatch(sender) ==
    LET err == closeBatchError(sender) IN
    IF err # "ok" THEN Reverted
    ELSE /\ batchOpen' = FALSE
         /\ encryptedTotalConnections' =
                [encryptedTotalConnections EXCEPT ![currentBatchId] = FHE_asEuint32_0]
         /\ Mined
         /\ batchLog' = Append(batchLog, "close")
         /\ UNCHANGED <<owner, isProvider, paused, cooldownSeconds, lastSubmissionTime,
                        lastDecryptionRequestTime, currentBatchId,
                        encryptedUserConnections,
                        decryptionContexts, environment, completions, submittedSince, submittedAfter,
                        closedAtRequest, exactSum, submissionCount, submissionLog,
                        openedIds, requestLog>>

closeBatch(sender) ==
    LET err == closeBatchError(sender) IN
    IF err # "ok" THEN Reverted
    ELSE /\ batchOpen' = FALSE
         /\ Mined
         /\ batchLog' = Append(batchLog, "close")
         /\ UNCHANGED <<owner, isProvider, paused, cooldownSeconds, lastSubmissionTime,
                        lastDecryptionRequestTime, currentBatchId,
                        encryptedTotalConnections, encryptedUserConnections,
                        decryptionContexts, environment, completions, submittedSince, submittedAfter,
                        closedAtRequest, exactSum, submissionCount, submissionLog,
                        openedIds, requestLog>>

\* -------------------------------------------------------------- accumulator
\* submitEncryptedConnections without the check that a batch is open
submitEncryptedConnectionsError_NoBatchCheck(sender, encryptedCount) ==
    FirstError(<<onlyProvider(sender), whenNotPaused, submissionCooldown(sender),
                 IF ~FHE_isInitialized(encryptedCount) THEN "NotInitialized" ELSE "ok">>)

submitEncryptedConnectionsError(sender, encryptedCount) ==
    FirstError(<<onlyProvider(sender), whenNotPaused, submissionCooldown(sender),
                 IF ~batchOpen THEN "BatchClosed" ELSE "ok",
                 IF ~FHE_isInitialized(encryptedCount) THEN "NotInitialized" ELSE "ok">>)

\* a submission that adds to the user's contribution instead of replacing it
StoreContribution_AddsPerUser(user, encryptedCount) ==
    /\ encryptedUserConnections' =
           [encryptedUserConnections EXCEPT ![currentBatchId][user] =
                FHE_add(encryptedUserConnections[currentBatchId][user], encryptedCount)]
    /\ encryptedTotalConnections' =
           [encryptedTotalConnections EXCEPT ![currentBatchId] =
                FHE_add(encryptedTotalConnections[currentBatchId], encryptedCount)]

\* the storage writes of an accepted submission to the current batch
StoreContribution(user, encryptedCount) ==
    /\ encryptedUserConnections' =
           [encryptedUserConnections EXCEPT ![currentBatchId][user] = encryptedCount]
    /\ encryptedTotalConnections' =
           [encryptedTotalConnections EXCEPT ![currentBatchId] =
                FHE_add(encryptedTotalConnections[currentBatchId], encryptedCount)]

Issued(r) == oracleRequests[r] # <<>>

\* submitEncryptedConnections that stamps the cooldown and returns, instead of
\* reverting, when no batch is open
submitEncryptedConnections_ReturnsOnClosedBatch(sender, user, encryptedCount) ==
    LET err == submitEncryptedConnectionsError(sender, encryptedCount) IN
    IF err = "BatchClosed"
    THEN /\ lastSubmissionTime' = [lastSubmissionTime EXCEPT ![sender] = now]
         /\ UNCHANGED <<owner, isProvider, paused, cooldownSeconds,
                        lastDecryptionRequestTime, currentBatchId, batchOpen,
                        encryptedTotalConnections, encryptedUserConnections,
                        decryptionContexts, environment, history, txCount>>
    ELSE IF err # "ok" THEN Reverted
    ELSE /\ submissionCount < MaxSubmissions
         /\ lastSubmissionTime' = [lastSubmissionTime EXCEPT ![sender] = now]
         /\ StoreContribution(user, encryptedCount)
         /\ Mined
         /\ submittedSince' =
                [r \in RequestIds |->
                    submittedSince[r]
                    \/ (/\ Issued(r)
                        /\ ~decryptionContexts[r].processed
                        /\ decryptionContexts[r].batchId = currentBatchId)]
         /\ submittedAfter' =
                [r \in RequestIds |->
                    submittedAfter[r]
                    \/ (Issued(r) /\ decryptionContexts[r].batchId = currentBatchId)]
         /\ exactSum' = [exactSum EXCEPT ![currentBatchId] =
                             ExactAdd(exactSum[currentBatchId], Decrypt(encryptedCount))]
         /\ submissionCount' = submissionCount + 1
         /\ submissionLog' =
                Append(submissionLog, [user |-> user, batchId |-> currentBatchId,
                                       encryptedCount |-> FHE_toBytes32(encryptedCount)])
         /\ UNCHANGED <<owner, isProvider, paused, cooldownSeconds,
                        lastDecryptionRequestTime, currentBatchId, batchOpen,
                        decryptionContexts, environment, completions, batchLog, closedAtRequest,
                        openedIds, requestLog>>

submitEncryptedConnections(sender, user, encryptedCount) ==
    LET err == submitEncryptedConnectionsError(sender, encryptedCount) IN
    IF err # "ok" THEN Reverted
    ELSE /\ submissionCount < MaxSubmissions
         /\ lastSubmissionTime' = [lastSubmissionTime EXCEPT ![sender] = now]
         /\ StoreContribution(user, encryptedCount)
         /\ Mined
         /\ submittedSince' =
                [r \in RequestIds |->
                    submittedSince[r]
                    \/ (/\ Issued(r)
                        /\ ~decryptionContexts[r].processed
                        /\ decryptionContexts[r].batchId = currentBatchId)]
         /\ submittedAfter' =
                [r \in RequestIds |->
                    submittedAfter[r]
                    \/ (Issued(r) /\ decryptionContexts[r].batchId = currentBatchId)]
         /\ exactSum' = [exactSum EXCEPT ![currentBatchId] =
                             ExactAdd(exactSum[currentBatchId], Decrypt(encryptedCount))]
         /\ submissionCount' = submissionCount + 1
         /\ submissionLog' =
                Append(submissionLog, [user |-> user, batchId |-> currentBatchId,
                                       encryptedCount |-> FHE_toBytes32(encryptedCount)])
         /\ UNCHANGED <<owner, isProvider, paused, cooldownSeconds,
                        lastDecryptionRequestTime, currentBatchId, batchOpen,
                        decryptionContexts, environment, completions, batchLog, closedAtRequest,
                        openedIds, requestLog>>

\* ------------------------------------------------------- decryption request
\* requestTotalConnectionsDecryption without the range check on batchId
requestTotalConnectionsDecryptionError_NoRangeCheck(sender, batchId) ==
    FirstError(<<onlyProvider(sender), whenNotPaused, decryptionCooldown(sender),
                 IF ~FHE_isInitialized(encryptedTotalConnections[batchId])
                 THEN "NotInitialized" ELSE "ok">>)

requestTotalConnectionsDecryptionError(sender, batchId) ==
    FirstError(<<onlyProvider(sender), whenNotPaused, decryptionCooldown(sender),
                 IF batchId = 0 \/ batchId > currentBatchId THEN "InvalidArgument" ELSE "ok",
                 IF ~FHE_isInitialized(encryptedTotalConnections[batchId])
                 THEN "NotInitialized" ELSE "ok">>)

\* FHE.requestDecryption: the oracle numbers the requests, never reusing an id
NextRequestId == 1 + Cardinality({r \in RequestIds : Issued(r)})

\* the context stored under the batch id instead of the request id
StoreContext_KeyedByBatch(requestId, batchId, stateHash) ==
    decryptionContexts' =
        [decryptionContexts EXCEPT ![batchId] =
            [batchId |-> batchId, stateHash |-> stateHash, processed |-> FALSE]]

\* decryptionContexts[requestId] = DecryptionContext({ ... processed: false })
StoreContext(requestId, batchId, stateHash) ==
    decryptionContexts' =
        [decryptionContexts EXCEPT ![requestId] =
            [batchId |-> batchId, stateHash |-> stateHash, processed |-> FALSE]]

requestTotalConnectionsDecryption(sender, batchId) ==
    LET err == requestTotalConnectionsDecryptionError(sender, batchId) IN
    IF err # "ok" THEN Reverted
    ELSE LET totalConnections == encryptedTotalConnections[batchId]
             cts == <<FHE_toBytes32(totalConnections)>>
             stateHash == hashCiphertexts(cts)
             requestId == NextRequestId
         IN  /\ requestId <= MaxRequests
             /\ lastDecryptionRequestTime' = [lastDecryptionRequestTime EXCEPT ![sender] = now]
             /\ oracleRequests' = [oracleRequests EXCEPT ![requestId] = cts]
             /\ StoreContext(requestId, batchId, stateHash)
             /\ Mined
             /\ closedAtRequest' = [closedAtRequest EXCEPT ![requestId] =
                                        ~(batchOpen /\ batchId = currentBatchId)]
             /\ requestLog' = Append(requestLog, [requestId |-> requestId, batchId |-> batchId])
             /\ UNCHANGED <<owner, isProvider, paused, cooldownSeconds, lastSubmissionTime,
                            currentBatchId, batchOpen, encryptedTotalConnections,
                            encryptedUserConnections, now, completions,
                            submittedSince, submittedAfter, batchLog, exactSum, submissionCount,
                            submissionLog, openedIds>>

\* ------------------------------------------------------------------ callback
\* FHE.checkSignatures: the proof is a KMS signature over the handles of the
\* request and the cleartexts
FHE_checkSignatures(requestId, cleartexts, proof) ==
    /\ Issued(requestId)
    /\ proof = KmsSign(oracleRequests[requestId], cleartexts)

\* myCallback that compares the snapshot with the aggregate of the batch that
\* is current when the answer arrives
myCallbackError_HashesCurrentBatch(requestId, cleartexts, proof) ==
    LET totalConnections == encryptedTotalConnections[currentBatchId]
        cts == <<FHE_toBytes32(totalConnections)>>
        currentHash == hashCiphertexts(cts)
    IN  FirstError(<<IF decryptionContexts[requestId].processed THEN "ReplayAttempt" ELSE "ok",
                     IF currentHash # decryptionContexts[requestId].stateHash
                     THEN "StateMismatch" ELSE "ok",
                     IF ~FHE_checkSignatures(requestId, cleartexts, proof)
                     THEN "InvalidProof" ELSE "ok",
                     IF ~AbiDecodable(cleartexts) THEN "Panic" ELSE "ok">>)

\* myCallback without the replay guard
myCallbackError_NoReplayGuard(requestId, cleartexts, proof) ==
    LET totalConnections == encryptedTotalConnections[decryptionContexts[requestId].batchId]
        cts == <<FHE_toBytes32(totalConnections)>>
        currentHash == hashCiphertexts(cts)
    IN  FirstError(<<IF currentHash # decryptionContexts[requestId].stateHash
                     THEN "StateMismatch" ELSE "ok",
                     IF ~FHE_checkSignatures(requestId, cleartexts, proof)
                     THEN "InvalidProof" ELSE "ok",
                     IF ~AbiDecodable(cleartexts) THEN "Panic" ELSE "ok">>)

\* myCallback without the comparison against the snapshot
myCallbackError_NoStateCheck(requestId, cleartexts, proof) ==
    FirstError(<<IF decryptionContexts[requestId].processed THEN "ReplayAttempt" ELSE "ok",
                 IF ~FHE_checkSignatures(requestId, cleartexts, proof)
                 THEN "InvalidProof" ELSE "ok",
                 IF ~AbiDecodable(cleartexts) THEN "Panic" ELSE "ok">>)

\* myCallback that verifies the proof before it looks at the context
myCallbackError_ProofFirst(requestId, cleartexts, proof) ==
    LET totalConnections == encryptedTotalConnections[decryptionContexts[requestId].batchId]
        cts == <<FHE_toBytes32(totalConnections)>>
        currentHash == hashCiphertexts(cts)
    IN  FirstError(<<IF ~FHE_checkSignatures(requestId, cleartexts, proof)
                     THEN "InvalidProof" ELSE "ok",
                     IF decryptionContexts[requestId].processed THEN "ReplayAttempt" ELSE "ok",
                     IF currentHash # decryptionContexts[requestId].stateHash
                     THEN "StateMismatch" ELSE "ok",
                     IF ~AbiDecodable(cleartexts) THEN "Panic" ELSE "ok">>)

myCallbackError(requestId, cleartexts, proof) ==
    LET totalConnections == encryptedTotalConnections[decryptionContexts[requestId].batchId]
        cts == <<FHE_toBytes32(totalConnections)>>
        currentHash == hashCiphertexts(cts)
    IN  FirstError(<<IF decryptionContexts[requestId].processed THEN "ReplayAttempt" ELSE "ok",
                     IF currentHash # decryptionContexts[requestId].stateHash
                     THEN "StateMismatch" ELSE "ok",
                     IF ~FHE_checkSignatures(requestId, cleartexts, proof)
                     THEN "InvalidProof" ELSE "ok",
                     IF ~AbiDecodable(cleartexts) THEN "Panic" ELSE "ok">>)

\* myCallback that reports the batch that is current when the answer arrives
myCallback_ReportsCurrentBatch(sender, requestId, cleartexts, proof) ==
    LET err == myCallbackError(requestId, cleartexts, proof) IN
    IF err # "ok" THEN Reverted
    ELSE /\ decryptionContexts' = [decryptionContexts EXCEPT ![requestId].processed = TRUE]
         /\ Mined
         /\ completions' =
                [completions EXCEPT ![requestId] =
                    Append(@, [requestId |-> requestId,
                               batchId |-> currentBatchId,
                               totalConnections |-> cleartexts,
                               aggregate |-> encryptedTotalConnections[
                                                 decryptionContexts[requestId].batchId]])]
         /\ UNCHANGED <<owner, isProvider, paused, cooldownSeconds, lastSubmissionTime,
                        lastDecryptionRequestTime, currentBatchId, batchOpen,
                        encryptedTotalConnections, encryptedUserConnections,
                        environment, submittedSince, submittedAfter, batchLog, closedAtRequest,
                        exactSum, submissionCount, submissionLog, openedIds,
                        requestLog>>

\* myCallback restricted to providers
myCallback_OnlyProvider(sender, requestId, cleartexts, proof) ==
    LET err == FirstError(<<onlyProvider(sender),
                            myCallbackError(requestId, cleartexts, proof)>>) IN
    IF err # "ok" THEN Reverted
    ELSE /\ decryptionContexts' = [decryptionContexts EXCEPT ![requestId].processed = TRUE]
         /\ Mined
         /\ completions' =
                [completions EXCEPT ![requestId] =
                    Append(@, [requestId |-> requestId,
                               batchId |-> decryptionContexts[requestId].batchId,
                               totalConnections |-> cleartexts,
                               aggregate |-> encryptedTotalConnections[
                                                 decryptionContexts[requestId].batchId]])]
         /\ UNCHANGED <<owner, isProvider, paused, cooldownSeconds, lastSubmissionTime,
                        lastDecryptionRequestTime, currentBatchId, batchOpen,
                        encryptedTotalConnections, encryptedUserConnections,
                        environment, submittedSince, submittedAfter, batchLog, closedAtRequest,
                        exactSum, submissionCount, submissionLog, openedIds,
                        requestLog>>

\* myCallback that marks the request processed before it verifies the proof,
\* and returns instead of reverting when the proof is invalid
myCallback_ConsumesOnInvalidProof(sender, requestId, cleartexts, proof) ==
    LET err == myCallbackError(requestId, cleartexts, proof) IN
    IF err = "InvalidProof"
    THEN /\ decryptionContexts' = [decryptionContexts EXCEPT ![requestId].processed = TRUE]
         /\ Mined
         /\ UNCHANGED <<owner, isProvider, paused, cooldownSeconds, lastSubmissionTime,
                        lastDecryptionRequestTime, currentBatchId, batchOpen,
                        encryptedTotalConnections, encryptedUserConnections,
                        environment, history>>
    ELSE IF err # "ok" THEN Reverted
    ELSE /\ decryptionContexts' = [decryptionContexts EXCEPT ![requestId].processed = TRUE]
         /\ Mined
         /\ completions' =
                [completions EXCEPT ![requestId] =
                    Append(@, [requestId |-> requestId,
                               batchId |-> decryptionContexts[requestId].batchId,
                               totalConnections |-> cleartexts,
                               aggregate |-> encryptedTotalConnections[
                                                 decryptionContexts[requestId].batchId]])]
         /\ UNCHANGED <<owner, isProvider, paused, cooldownSeconds, lastSubmissionTime,
                        lastDecryptionRequestTime, currentBatchId, batchOpen,
                        encryptedTotalConnections, encryptedUserConnections,
                        environment, submittedSince, submittedAfter, batchLog, closedAtRequest,
                        exactSum, submissionCount, submissionLog, openedIds,
                        requestLog>>

\* myCallback that deletes the context once the decryption is delivered
myCallback_DeletesContext(sender, requestId, cleartexts, proof) ==
    LET err == myCallbackError(requestId, cleartexts, proof) IN
    IF err # "ok" THEN Reverted
    ELSE /\ decryptionContexts' = [decryptionContexts EXCEPT ![requestId] = EmptyContext]
         /\ Mined
         /\ completions' =
                [completions EXCEPT ![requestId] =
                    Append(@, [requestId |-> requestId,
                               batchId |-> decryptionContexts[requestId].batchId,
                               totalConnections |-> cleartexts,
                               aggregate |-> encryptedTotalConnections[
                                                 decryptionContexts[requestId].batchId]])]
         /\ UNCHANGED <<owner, isProvider, paused, cooldownSeconds, lastSubmissionTime,
                        lastDecryptionRequestTime, currentBatchId, batchOpen,
                        encryptedTotalConnections, encryptedUserConnections,
                        environment, submittedSince, submittedAfter, batchLog, closedAtRequest,
                        exactSum, submissionCount, submissionLog, openedIds,
                        requestLog>>

\* myCallback that marks every context of the batch processed
myCallback_MarksWholeBatch(sender, requestId, cleartexts, proof) ==
    LET err == myCallbackError(requestId, cleartexts, proof) IN
    IF err # "ok" THEN Reverted
    ELSE /\ decryptionContexts' =
                [r \in RequestIds |->
                    IF decryptionContexts[r].batchId = decryptionContexts[requestId].batchId
                    THEN [decryptionContexts[r] EXCEPT !.processed = TRUE]
                    ELSE decryptionContexts[r]]
         /\ Mined
         /\ completions' =
                [completions EXCEPT ![requestId] =
                    Append(@, [requestId |-> requestId,
                               batchId |-> decryptionContexts[requestId].batchId,
                               totalConnections |-> cleartexts,
                               aggregate |-> encryptedTotalConnections[
                                                 decryptionContexts[requestId].batchId]])]
         /\ UNCHANGED <<owner, isProvider, paused, cooldownSeconds, lastSubmissionTime,
                        lastDecryptionRequestTime, currentBatchId, batchOpen,
                        encryptedTotalConnections, encryptedUserConnections,
                        environment, submittedSince, submittedAfter, batchLog, closedAtRequest,
                        exactSum, submissionCount, submissionLog, openedIds,
                        requestLog>>

myCallback(sender, requestId, cleartexts, proof) ==
    LET err == myCallbackError(requestId, cleartexts, proof) IN
    IF err # "ok" THEN Reverted
    ELSE LET totalConnectionsCleartext == cleartexts
         IN  /\ decryptionContexts' = [decryptionContexts EXCEPT ![requestId].processed = TRUE]
             /\ Mined
             /\ completions' =
                    [completions EXCEPT ![requestId] =
                        Append(@, [requestId |-> requestId,
                                   batchId |-> decryptionContexts[requestId].batchId,
                                   totalConnections |-> totalConnectionsCleartext,
                                   aggregate |-> encryptedTotalConnections[
                                                     decryptionContexts[requestId].batchId]])]
             /\ UNCHANGED <<owner, isProvider, paused, cooldownSeconds, lastSubmissionTime,
                            lastDecryptionRequestTime, currentBatchId, batchOpen,
                            encryptedTotalConnections, encryptedUserConnections,
                            environment, submittedSince, submittedAfter, batchLog, closedAtRequest,
                            exactSum, submissionCount, submissionLog, openedIds,
                            requestLog>>

\* The payloads and proofs a caller can present.  The KMS signs the true
\* decryption of the handles of every request that was issued and nothing
\* else, so a proof is either that signature or one that verifies nowhere.
TrueCleartexts(r) == AbiEncodeU32(Decrypt(oracleRequests[r][1]))

CleartextChoices(r) ==
    {BogusCleartexts} \cup (IF Issued(r) THEN {TrueCleartexts(r)} ELSE {})

ProofChoices(r) ==
    {ForgedProof}
    \cup (IF Issued(r) THEN {KmsSign(oracleRequests[r], TrueCleartexts(r))} ELSE {})

\* ---------------------------------------------------------------------- time
\* block.timestamp moves forward between transactions; the model moves it one
\* default cooldown at a time, so a call falls on the same timestamp as the
\* previous one or exactly on the end of a 60 s window
Tick ==
    /\ now' = now + DEFAULT_COOLDOWN
    /\ Mined
    /\ UNCHANGED <<storage, oracleRequests, history>>

Next ==
    \/ \E s \in Callers, p \in Addresses : addProvider(s, p)
    \/ \E s \in Callers, p \in Addresses : removeProvider(s, p)
    \/ \E s \in Callers, c \in CooldownChoices : setCooldownSeconds(s, c)
    \/ \E s \in Callers : pause(s)
    \/ \E s \in Callers : unpause(s)
    \/ \E s \in Callers : openBatch(s)
    \/ \E s \in Callers : closeBatch(s)
    \/ \E s \in Callers, u \in Users, h \in SubmittableHandles :
            submitEncryptedConnections(s, u, h)
    \/ \E s \in Callers, b \in BatchIds : requestTotalConnectionsDecryption(s, b)
    \/ \E s \in Callers, r \in RequestIds :
         \E c \in CleartextChoices(r), p \in ProofChoices(r) : myCallback(s, r, c, p)
    \/ Tick

Spec == Init /\ [][Next]_vars

\* ======================================================================
\* Properties
\* ======================================================================

\* every (cleartexts, proof) pair a caller can present for request r
CallbackInputs(r) == CleartextChoices(r) \X ProofChoices(r)

\* C1 (replay immunity): once a callback for a request id has succeeded,
\* every later callback for that id, whatever its payload and proof, reverts
\* with ReplayAttempt, the processed flag is still true, and no second
\* DecryptionCompleted exists: at most one completion per request id.
C1_ReplayImmunity ==
    \A r \in RequestIds :
        /\ Len(completions[r]) <= 1
        /\ completions[r] # <<>> =>
              /\ decryptionContexts[r].processed
              /\ \A in \in CallbackInputs(r) :
                    myCallbackError(r, in[1], in[2]) = "ReplayAttempt"

\* a request was completed, and both an honest and a forged replay are on offer
C1_Witness ==
    \E r \in RequestIds :
        /\ completions[r] # <<>>
        /\ Cardinality(CallbackInputs(r)) = 4

\* C2 (tamper detection): when the batch of a pending request took a
\* submission after the request, the request's callback reverts with
\* StateMismatch for a valid proof and for an invalid one, and the request
\* stays unprocessed.
C2_TamperDetection ==
    \A r \in RequestIds :
        submittedSince[r] =>
            /\ ~decryptionContexts[r].processed
            /\ completions[r] = <<>>
            /\ \A in \in CallbackInputs(r) :
                  myCallbackError(r, in[1], in[2]) = "StateMismatch"

\* a pending request whose batch was submitted to, with the KMS proof at hand
C2_Witness ==
    \E r \in RequestIds :
        /\ submittedSince[r]
        /\ KmsSign(oracleRequests[r], TrueCleartexts(r)) \in ProofChoices(r)

\* C3 (snapshot integrity): every callback that was accepted was accepted in
\* a state where the aggregate handle of the context's batch was the handle
\* given to the oracle at request time, the one whose hash the context holds.
C3_AcceptedOnlyOnSnapshot ==
    \A r \in RequestIds :
        \A i \in 1 .. Len(completions[r]) :
            /\ Issued(r)
            /\ <<FHE_toBytes32(completions[r][i].aggregate)>> = oracleRequests[r]
            /\ hashCiphertexts(<<FHE_toBytes32(completions[r][i].aggregate)>>)
                   = decryptionContexts[r].stateHash

\* a request was completed although its batch was submitted to after the
\* completion: the snapshot mattered at the time of the callback only
C3_Witness ==
    \E r \in RequestIds :
        /\ completions[r] # <<>>
        /\ encryptedTotalConnections[decryptionContexts[r].batchId]
               # completions[r][1].aggregate

\* the honest oracle's answer to request r: the decryption and the KMS proof
HonestAnswerAccepted(r) ==
    myCallbackError(r, TrueCleartexts(r), KmsSign(oracleRequests[r], TrueCleartexts(r))) = "ok"

\* C4 (aggregate correctness): a request issued for a closed batch B is
\* completed by the honest oracle's answer, and its DecryptionCompleted
\* carries batch id B and the sum v_1 + ... + v_n of the plaintexts of all
\* the submissions accepted into B, each call counted once.
C4_TotalIsSumOfSubmissions ==
    \A r \in RequestIds :
        (Issued(r) /\ closedAtRequest[r]) =>
            /\ ~decryptionContexts[r].processed => HonestAnswerAccepted(r)
            /\ \A i \in 1 .. Len(completions[r]) :
                  /\ completions[r][i].batchId = decryptionContexts[r].batchId
                  /\ completions[r][i].totalConnections
                         = exactSum[completions[r][i].batchId]

\* what the contract does deliver: the sum reduced modulo 2^32
C4_TotalIsSumModulo32Bits ==
    \A r \in RequestIds :
        (Issued(r) /\ closedAtRequest[r]) =>
            /\ ~decryptionContexts[r].processed => HonestAnswerAccepted(r)
            /\ \A i \in 1 .. Len(completions[r]) :
                  /\ completions[r][i].batchId = decryptionContexts[r].batchId
                  /\ completions[r][i].totalConnections
                         = U32(exactSum[completions[r][i].batchId][1] % HALF,
                               exactSum[completions[r][i].batchId][2])

\* C5 (batch alternation): the openBatch and closeBatch calls that go
\* through alternate open, close, open, ... from Closed, batchOpen says
\* whether the last one was an open, currentBatchId counts the opens, and a
\* provider's openBatch while a batch is open, or closeBatch while none is,
\* reverts with InvalidArgument (the contract not being paused).
C5_BatchAlternation ==
    /\ \A i \in 1 .. Len(batchLog) :
          batchLog[i] = IF i % 2 = 1 THEN "open" ELSE "close"
    /\ batchOpen <=> (Len(batchLog) % 2 = 1)
    /\ currentBatchId = (Len(batchLog) + 1) \div 2
    /\ \A s \in Callers :
          (isProvider[s] /\ ~paused) =>
              /\ batchOpen => openBatchError(s) = "InvalidArgument"
              /\ ~batchOpen => closeBatchError(s) = "InvalidArgument"

\* the second batch is open, and a provider may try to open another
C5_Witness ==
    /\ batchLog = <<"open", "close", "open">>
    /\ ~paused
    /\ \E s \in Callers : isProvider[s]

\* C6 (authorization): the five owner functions revert with NotOwner for a
\* caller who is not the owner, and the four provider functions revert with
\* NotProvider for a caller who is not a provider at that moment, whatever
\* the arguments and the rest of the state; a reverting call changes nothing.
C6_Authorization ==
    \A s \in Callers :
        /\ s # owner =>
              /\ \A p \in Addresses :
                    /\ addProviderError(s, p) = "NotOwner"
                    /\ removeProviderError(s, p) = "NotOwner"
              /\ \A c \in CooldownChoices : setCooldownSecondsError(s, c) = "NotOwner"
              /\ pauseError(s) = "NotOwner"
              /\ unpauseError(s) = "NotOwner"
        /\ ~isProvider[s] =>
              /\ openBatchError(s) = "NotProvider"
              /\ closeBatchError(s) = "NotProvider"
              /\ \A h \in SubmittableHandles :
                    submitEncryptedConnectionsError(s, h) = "NotProvider"
              /\ \A b \in BatchIds :
                    requestTotalConnectionsDecryptionError(s, b) = "NotProvider"

\* a caller with no role faces a paused contract with an open batch and a
\* pending request, and the owner itself is no provider any more
C6_Witness ==
    /\ \E s \in Callers : s # owner /\ ~isProvider[s]
    /\ ~isProvider[owner]
    /\ paused
    /\ batchOpen
    /\ Issued(1)

\* C7 (submission cooldown): a provider that has submitted at t1 =
\* lastSubmissionTime is rejected with CooldownActive while
\* now < t1 + cooldownSeconds and is accepted from now >= t1 + cooldownSeconds
\* on (batch open, not paused, handle initialised).
C7_CooldownWindow ==
    \A s \in Callers :
        (isProvider[s] /\ ~paused /\ lastSubmissionTime[s] > 0) =>
            \A h \in InputHandles :
                /\ now - lastSubmissionTime[s] < cooldownSeconds =>
                      submitEncryptedConnectionsError(s, h) = "CooldownActive"
                /\ (now - lastSubmissionTime[s] >= cooldownSeconds /\ batchOpen) =>
                      submitEncryptedConnectionsError(s, h) = "ok"

\* C8 (processed is monotone): no step takes the processed flag of any
\* request id from true back to false, so it goes from false to true at
\* most once.
C8_ProcessedNeverReset ==
    [][\A r \in RequestIds :
           decryptionContexts[r].processed => decryptionContexts'[r].processed]_vars

\* a request is processed while another one, for the same batch, is pending
C8_Witness ==
    \E r, q \in RequestIds :
        /\ decryptionContexts[r].processed
        /\ Issued(q) /\ ~decryptionContexts[q].processed
        /\ decryptionContexts[q].batchId = decryptionContexts[r].batchId

\* C9 (submissions go to the open batch only): a submission is accepted only
\* while a batch is open; it leaves currentBatchId and batchOpen as they are
\* and changes the aggregate of currentBatchId, one user's contribution in
\* currentBatchId and nothing else of any batch; with no batch open a
\* provider's submission reverts with BatchClosed (not paused, cooldown over).
C9_SubmissionChanges ==
    /\ submissionCount' # submissionCount
    /\ batchOpen /\ batchOpen'
    /\ currentBatchId' = currentBatchId
    /\ encryptedTotalConnections'[currentBatchId]
           # encryptedTotalConnections[currentBatchId]
    /\ \A b \in BatchIds \ {currentBatchId} :
          /\ encryptedTotalConnections'[b] = encryptedTotalConnections[b]
          /\ encryptedUserConnections'[b] = encryptedUserConnections[b]
    /\ \E u \in Users :
          \A v \in Users \ {u} :
              encryptedUserConnections'[currentBatchId][v]
                  = encryptedUserConnections[currentBatchId][v]

C9_SubmissionsOnlyToOpenBatch ==
    /\ [][(\/ submissionCount' # submissionCount
           \/ encryptedUserConnections' # encryptedUserConnections)
          => C9_SubmissionChanges]_vars
    /\ [](\A s \in Callers, h \in SubmittableHandles :
            ~batchOpen =>
                /\ submitEncryptedConnectionsError(s, h) # "ok"
                /\ (isProvider[s] /\ ~paused /\ submissionCooldown(s) = "ok") =>
                      submitEncryptedConnectionsError(s, h) = "BatchClosed")

\* batch 1 holds a submission and is closed, batch 2 is open and holds one too
C9_Witness ==
    /\ currentBatchId = 2 /\ batchOpen
    /\ encryptedTotalConnections[1] # FHE_asEuint32_0
    /\ encryptedTotalConnections[2] # FHE_asEuint32_0

\* C10 (aggregates exist for the opened batches): batchOpen implies
\* currentBatchId >= 1, and the aggregate of batch b is initialised exactly
\* when 1 <= b <= currentBatchId; it starts from the encrypted zero that
\* openBatch stores, and is that zero until the batch takes a submission.
C10_AggregateInitialised ==
    /\ batchOpen => currentBatchId >= 1
    /\ \A b \in BatchIds :
          /\ FHE_isInitialized(encryptedTotalConnections[b])
                 <=> (1 <= b /\ b <= currentBatchId)
          /\ (1 <= b /\ b <= currentBatchId) =>
                /\ Head(encryptedTotalConnections[b]) = 0
                /\ exactSum[b] = U32Zero =>
                      encryptedTotalConnections[b] = FHE_asEuint32_0

\* two batches were opened, one of them never submitted to
C10_Witness ==
    /\ currentBatchId = 2
    /\ encryptedTotalConnections[1] # FHE_asEuint32_0
    /\ encryptedTotalConnections[2] = FHE_asEuint32_0

\* C11 (the owner is a provider): in every reachable state, whatever
\* addProvider and removeProvider calls were made, isProvider[owner] is true.
C11_OwnerIsProvider == isProvider[owner]

\* C12 (the owner is immutable): in every state reached by any calls of any
\* callers, the owner is the account that deployed the contract.
C12_OwnerImmutable == owner = Deployer

\* the owner changed everything it can change (provider set, pause flag,
\* cooldown), a second provider exists and a decryption went through
C12_Witness ==
    /\ owner = Deployer
    /\ isProvider[Other] /\ ~isProvider[Deployer]
    /\ paused
    /\ cooldownSeconds # DEFAULT_COOLDOWN
    /\ \E r \in RequestIds : completions[r] # <<>>

\* C13 (the pause gates every mutating operation): while paused, each of
\* addProvider, removeProvider, setCooldownSeconds, openBatch, closeBatch,
\* submitEncryptedConnections, requestTotalConnectionsDecryption and
\* myCallback fails; it fails with Paused for a caller that holds the role
\* the function asks for (the callback asks for none).
C13_PauseGatesEverything ==
    paused =>
        /\ \A s \in Callers :
              /\ \A p \in Addresses :
                    /\ addProviderError(s, p) # "ok"
                    /\ removeProviderError(s, p) # "ok"
                    /\ s = owner => addProviderError(s, p) = "Paused"
                    /\ s = owner => removeProviderError(s, p) = "Paused"
              /\ \A c \in CooldownChoices :
                    /\ setCooldownSecondsError(s, c) # "ok"
                    /\ s = owner => setCooldownSecondsError(s, c) = "Paused"
              /\ isProvider[s] =>
                    /\ openBatchError(s) = "Paused"
                    /\ closeBatchError(s) = "Paused"
                    /\ \A h \in SubmittableHandles :
                          submitEncryptedConnectionsError(s, h) = "Paused"
                    /\ \A b \in BatchIds :
                          requestTotalConnectionsDecryptionError(s, b) = "Paused"
        /\ \A r \in RequestIds :
              \A in \in CallbackInputs(r) : myCallbackError(r, in[1], in[2]) = "Paused"

\* C14 (the provider functions are gated by the pause): while paused, a
\* provider's openBatch, closeBatch, submitEncryptedConnections and
\* requestTotalConnectionsDecryption revert with Paused whatever their
\* arguments, and no step taken while paused changes batchOpen,
\* currentBatchId, an aggregate, a contribution, a cooldown timestamp, or
\* creates or rewrites a decryption context; while not paused the same calls
\* are decided by their other preconditions alone.
C14_PausedState ==
    \A s \in Callers :
        isProvider[s] =>
            IF paused
            THEN /\ openBatchError(s) = "Paused"
                 /\ closeBatchError(s) = "Paused"
                 /\ \A h \in SubmittableHandles :
                       submitEncryptedConnectionsError(s, h) = "Paused"
                 /\ \A b \in BatchIds :
                       requestTotalConnectionsDecryptionError(s, b) = "Paused"
            ELSE /\ openBatchError(s) = (IF batchOpen THEN "InvalidArgument" ELSE "ok")
                 /\ closeBatchError(s) = (IF batchOpen THEN "ok" ELSE "InvalidArgument")
                 /\ \A h \in InputHandles :
                       (submissionCooldown(s) = "ok" /\ batchOpen) =>
                           submitEncryptedConnectionsError(s, h) = "ok"
                 /\ \A b \in 1 .. currentBatchId :
                       decryptionCooldown(s) = "ok" =>
                           requestTotalConnectionsDecryptionError(s, b) = "ok"

C14_PausedStep ==
    paused =>
        /\ UNCHANGED <<batchOpen, currentBatchId, encryptedTotalConnections,
                       encryptedUserConnections, lastSubmissionTime,
                       lastDecryptionRequestTime, oracleRequests>>
        /\ \A r \in RequestIds :
              /\ decryptionContexts'[r].batchId = decryptionContexts[r].batchId
              /\ decryptionContexts'[r].stateHash = decryptionContexts[r].stateHash

C14_ProviderFunctionsPaused == []C14_PausedState /\ [][C14_PausedStep]_vars

\* the contract is paused with a batch open that holds a submission, a
\* decryption pending, and two providers to call
C14_Witness ==
    /\ paused /\ batchOpen
    /\ isProvider[Deployer] /\ isProvider[Other]
    /\ submissionCount > 0
    /\ \E r \in RequestIds : Issued(r) /\ ~decryptionContexts[r].processed

\* C15 (all-or-nothing failure): a call that fails with an error changes
\* nothing and emits nothing.  Every step that changes the contract's
\* storage, adds an oracle request or emits an event is the step of a call,
\* of some function by some caller with some arguments, all of whose checks
\* passed; what a failing call leaves behind is the state it found.
C15_FailedStep ==
    \/ UNCHANGED <<storage, oracleRequests, history>>
    \/ \E s \in Callers :
          \/ \E u \in Users, h \in SubmittableHandles :
                /\ submitEncryptedConnectionsError(s, h) = "ok"
                /\ submitEncryptedConnections(s, u, h)
          \/ \E b \in BatchIds :
                /\ requestTotalConnectionsDecryptionError(s, b) = "ok"
                /\ requestTotalConnectionsDecryption(s, b)
          \/ \E r \in RequestIds :
                \E in \in CallbackInputs(r) :
                    /\ myCallbackError(r, in[1], in[2]) = "ok"
                    /\ myCallback(s, r, in[1], in[2])
          \/ openBatchError(s) = "ok" /\ openBatch(s)
          \/ closeBatchError(s) = "ok" /\ closeBatch(s)
          \/ pauseError(s) = "ok" /\ pause(s)
          \/ unpauseError(s) = "ok" /\ unpause(s)
          \/ \E p \in Addresses :
                \/ addProviderError(s, p) = "ok" /\ addProvider(s, p)
                \/ removeProviderError(s, p) = "ok" /\ removeProvider(s, p)
          \/ \E c \in CooldownChoices :
                setCooldownSecondsError(s, c) = "ok" /\ setCooldownSeconds(s, c)

C15_AllOrNothing == [][C15_FailedStep]_vars

\* many of the named errors are on offer at once: NotOwner and NotProvider
\* to a caller with no role; CooldownActive and InvalidArgument to a provider
\* that has just submitted and requested, a batch being open; ReplayAttempt
\* or StateMismatch to a callback
C15_Witness ==
    /\ \E s \in Callers : s # owner /\ ~isProvider[s]
    /\ \E s \in Callers :
          /\ isProvider[s]
          /\ ~paused
          /\ submissionCooldown(s) = "CooldownActive"
          /\ decryptionCooldown(s) = "CooldownActive"
          /\ openBatchError(s) = "InvalidArgument"
    /\ \E r \in RequestIds :
          \E in \in CallbackInputs(r) :
              myCallbackError(r, in[1], in[2]) \in {"ReplayAttempt", "StateMismatch"}

\* the handle of the last submission for (batchId, user) in a log, or the
\* default handle when there is none
RECURSIVE LastSubmitted(_, _, _)
LastSubmitted(log, batchId, user) ==
    IF log = <<>> THEN UninitHandle
    ELSE LET e == log[Len(log)]
         IN  IF e.batchId = batchId /\ e.user = user THEN e.encryptedCount
             ELSE LastSubmitted(SubSeq(log, 1, Len(log) - 1), batchId, user)

\* the homomorphic sum, from the encrypted zero, of every submission of a log
\* for batchId, in order
RECURSIVE SumSubmitted(_, _)
SumSubmitted(log, batchId) ==
    IF log = <<>> THEN FHE_asEuint32_0
    ELSE LET e == log[Len(log)]
             rest == SumSubmitted(SubSeq(log, 1, Len(log) - 1), batchId)
         IN  IF e.batchId = batchId THEN FHE_add(rest, e.encryptedCount) ELSE rest

\* C16 (per-user overwrite, aggregate double count): the contribution stored
\* for (batch, user) is the ciphertext of the last submission for that user
\* in that batch, and only that, while the aggregate of the batch is the
\* homomorphic sum of all the ciphertexts submitted to it, a user submitted
\* twice being added twice.
C16_LastWriteWinsAggregateSumsAll ==
    \A b \in 1 .. currentBatchId :
        /\ encryptedTotalConnections[b] = SumSubmitted(submissionLog, b)
        /\ \A u \in Users :
              encryptedUserConnections[b][u] = LastSubmitted(submissionLog, b, u)

\* the same user was submitted twice in one batch, with different ciphertexts
C16_Witness ==
    \E i, j \in 1 .. Len(submissionLog) :
        /\ i < j
        /\ submissionLog[i].batchId = submissionLog[j].batchId
        /\ submissionLog[i].user = submissionLog[j].user
        /\ submissionLog[i].encryptedCount # submissionLog[j].encryptedCount

\* C17 (decryption request): for a provider past the pause and cooldown
\* modifiers, requestTotalConnectionsDecryption(batchId) reverts with
\* InvalidArgument unless 0 < batchId <= currentBatchId and is accepted
\* otherwise, for the open batch as for a closed one; a step that issues a
\* request stores, under the id the oracle returned, a context with that
\* batchId, the hash of the batch's aggregate handle of that moment and
\* processed = false, touches no other context, and sets the
\* lastDecryptionRequestTime of one provider, the caller, to the current time.
C17_RequestPreconditions ==
    \A s \in Callers :
        (isProvider[s] /\ ~paused /\ decryptionCooldown(s) = "ok") =>
            \A b \in BatchIds :
                requestTotalConnectionsDecryptionError(s, b)
                    = IF 0 < b /\ b <= currentBatchId THEN "ok" ELSE "InvalidArgument"

C17_RequestStep ==
    oracleRequests' # oracleRequests =>
        \E r \in RequestIds, b \in 1 .. currentBatchId, s \in Callers :
            /\ ~Issued(r) /\ r = NextRequestId
            /\ oracleRequests' =
                   [oracleRequests EXCEPT ![r] = <<FHE_toBytes32(encryptedTotalConnections[b])>>]
            /\ decryptionContexts' =
                   [decryptionContexts EXCEPT ![r] =
                       [batchId |-> b,
                        stateHash |-> hashCiphertexts(
                                          <<FHE_toBytes32(encryptedTotalConnections[b])>>),
                        processed |-> FALSE]]
            /\ isProvider[s]
            /\ lastDecryptionRequestTime' = [lastDecryptionRequestTime EXCEPT ![s] = now]
            /\ UNCHANGED <<encryptedTotalConnections, currentBatchId, batchOpen, now>>

C17_DecryptionRequest == []C17_RequestPreconditions /\ [][C17_RequestStep]_vars

\* one request was issued for a batch that was open and one for a closed
\* batch, the later one at a later time than the first
C17_Witness ==
    \E r, q \in RequestIds :
        /\ Issued(r) /\ ~closedAtRequest[r]
        /\ Issued(q) /\ closedAtRequest[q]
        /\ \E s \in Callers : lastDecryptionRequestTime[s] > StartTime

\* C18 (provider registry): the owner's addProvider reverts with
\* InvalidArgument for the null address and otherwise goes through, making
\* the address a provider and changing no other entry (nothing at all when
\* it is a provider already); the owner's removeProvider reverts with
\* InvalidArgument for an address that is not a provider and otherwise makes
\* it no provider, changing no other entry; an address that is not a
\* provider has its provider-gated calls revert with NotProvider, and the
\* owner can add it again.  (A call that goes through is a transaction that
\* was mined: the step raises txCount.)
C18_RegistryState ==
    /\ ~isProvider[ZeroAddress]
    /\ \A p \in Addresses :
          /\ addProviderError(owner, p)
                 = IF p = ZeroAddress THEN "InvalidArgument" ELSE "ok"
          /\ removeProviderError(owner, p)
                 = IF isProvider[p] THEN "ok" ELSE "InvalidArgument"
    /\ \A s \in Callers :
          ~isProvider[s] =>
              /\ openBatchError(s) = "NotProvider"
              /\ closeBatchError(s) = "NotProvider"
              /\ \A h \in SubmittableHandles :
                    submitEncryptedConnectionsError(s, h) = "NotProvider"
              /\ \A b \in BatchIds :
                    requestTotalConnectionsDecryptionError(s, b) = "NotProvider"

C18_RegistryStep ==
    /\ txCount' # txCount =>
          \A p \in Addresses :
              /\ (addProviderError(owner, p) = "ok" /\ addProvider(owner, p)) =>
                     /\ isProvider'[p]
                     /\ \A q \in Addresses \ {p} : isProvider'[q] = isProvider[q]
                     /\ isProvider[p] => isProvider' = isProvider
              /\ (removeProviderError(owner, p) = "ok" /\ removeProvider(owner, p)) =>
                     /\ ~isProvider'[p]
                     /\ \A q \in Addresses \ {p} : isProvider'[q] = isProvider[q]
    /\ isProvider' # isProvider =>
          \E p \in Addresses :
              \/ addProviderError(owner, p) = "ok" /\ addProvider(owner, p)
              \/ removeProviderError(owner, p) = "ok" /\ removeProvider(owner, p)

C18_ProviderRegistry == []C18_RegistryState /\ [][C18_RegistryStep]_vars

\* an address was added and another, the owner itself, was removed, with a
\* batch open for the calls the removed one can no longer make
C18_Witness ==
    /\ isProvider[Other] /\ ~isProvider[owner]
    /\ batchOpen /\ ~paused

\* C19 (pause and unpause): the owner's pause reverts with Paused while the
\* contract is paused and goes through otherwise; the owner's unpause goes
\* through whether the contract is paused or not, and leaves paused false;
\* the flag is false before the first transaction and changes in no step
\* other than a pause or an unpause that went through.
C19_PauseState ==
    /\ pauseError(owner) = IF paused THEN "Paused" ELSE "ok"
    /\ unpauseError(owner) = "ok"
    /\ txCount = 0 => ~paused

C19_PauseStep ==
    /\ (pauseError(owner) = "ok" /\ pause(owner)) => paused'
    /\ (unpauseError(owner) = "ok" /\ unpause(owner)) => ~paused'
    /\ paused' # paused =>
          \E s \in Callers :
              \/ pauseError(s) = "ok" /\ pause(s)
              \/ unpauseError(s) = "ok" /\ unpause(s)

C19_PauseUnpause == []C19_PauseState /\ [][C19_PauseStep]_vars

\* the contract is paused after three or more transactions that left the
\* rest of the state as constructed, as pause, unpause, pause does
C19_Witness ==
    /\ paused
    /\ txCount >= 3
    /\ isProvider = [a \in Addresses |-> a = Deployer]
    /\ cooldownSeconds = DEFAULT_COOLDOWN
    /\ now = StartTime
    /\ batchLog = <<>>

\* C20 (the cooldown is never zero): the owner's setCooldownSeconds(0)
\* reverts with InvalidArgument, and cooldownSeconds is nonzero in every
\* reachable state: 60 from the constructor, or a nonzero value the owner set.
C20_CooldownNonzero ==
    /\ setCooldownSecondsError(owner, 0) = "InvalidArgument"
    /\ cooldownSeconds # 0
    /\ cooldownSeconds \in {DEFAULT_COOLDOWN} \cup (CooldownChoices \ {0})

\* the owner has replaced the constructor's cooldown
C20_Witness == cooldownSeconds # DEFAULT_COOLDOWN /\ cooldownSeconds # 0

\* C21 (two timers, keyed by the caller): a submission that goes through
\* sets the lastSubmissionTime of one provider, the caller, to the current
\* time and changes no other timer; a decryption request that goes through
\* does the same with lastDecryptionRequestTime; no other step changes a
\* timer.  A submission is delayed by the caller's own submission timer
\* alone and a request by the caller's own request timer alone, so neither
\* kind delays the other or another provider; the submission timer is one
\* per provider, whatever the user submitted for.
C21_TimersState ==
    \A s \in Callers :
        /\ now - lastSubmissionTime[s] >= cooldownSeconds => submissionCooldown(s) = "ok"
        /\ now - lastDecryptionRequestTime[s] >= cooldownSeconds
               => decryptionCooldown(s) = "ok"
        /\ (lastSubmissionTime[s] > 0 /\ now - lastSubmissionTime[s] < cooldownSeconds)
               => \A h \in SubmittableHandles :
                      submitEncryptedConnectionsError(s, h) # "ok"
        /\ (lastDecryptionRequestTime[s] > 0
            /\ now - lastDecryptionRequestTime[s] < cooldownSeconds)
               => \A b \in BatchIds : requestTotalConnectionsDecryptionError(s, b) # "ok"

C21_TimersStep ==
    /\ submissionCount' # submissionCount =>
          /\ \E s \in Callers :
                /\ isProvider[s]
                /\ lastSubmissionTime' = [lastSubmissionTime EXCEPT ![s] = now]
          /\ UNCHANGED lastDecryptionRequestTime
    /\ requestLog' # requestLog =>
          /\ \E s \in Callers :
                /\ isProvider[s]
                /\ lastDecryptionRequestTime' = [lastDecryptionRequestTime EXCEPT ![s] = now]
          /\ UNCHANGED lastSubmissionTime
    /\ lastSubmissionTime' # lastSubmissionTime => submissionCount' # submissionCount
    /\ lastDecryptionRequestTime' # lastDecryptionRequestTime => requestLog' # requestLog

C21_IndependentTimers == []C21_TimersState /\ [][C21_TimersStep]_vars

\* one provider has just requested a decryption and is free to submit, while
\* another has just submitted (for either user) and is free to request
C21_Witness ==
    \E s, t \in Callers :
        /\ s # t /\ ~paused /\ batchOpen
        /\ lastDecryptionRequestTime[s] = now /\ lastSubmissionTime[s] = 0
        /\ lastSubmissionTime[t] = now /\ lastDecryptionRequestTime[t] = 0
        /\ decryptionCooldown(s) = "CooldownActive" /\ submissionCooldown(s) = "ok"
        /\ submissionCooldown(t) = "CooldownActive" /\ decryptionCooldown(t) = "ok"

\* batch b was opened and is not open now
BatchIsClosed(b) == 1 <= b /\ b <= currentBatchId /\ ~(batchOpen /\ b = currentBatchId)

\* C22 (closing keeps the data): the step of a closeBatch that goes through
\* changes batchOpen and nothing else of the storage, and no transaction of
\* any operation changes the aggregate or a contribution of a batch that is
\* closed, or reopens it: once closed, a batch keeps its data for good.
C22_ClosedBatchStep ==
    txCount' # txCount =>
       /\ (batchLog' # batchLog /\ ~batchOpen') =>
             /\ batchOpen
             /\ UNCHANGED <<owner, isProvider, paused, cooldownSeconds, lastSubmissionTime,
                            lastDecryptionRequestTime, currentBatchId,
                            encryptedTotalConnections, encryptedUserConnections,
                            decryptionContexts>>
       /\ \A b \in BatchIds :
             BatchIsClosed(b) =>
                 /\ encryptedTotalConnections'[b] = encryptedTotalConnections[b]
                 /\ encryptedUserConnections'[b] = encryptedUserConnections[b]
                 /\ 1 <= b /\ b <= currentBatchId' /\ ~(batchOpen' /\ b = currentBatchId')

C22_ClosedBatchKeepsData == [][C22_ClosedBatchStep]_vars

\* batch 1 took a submission for a user and was closed; batch 2 was then
\* opened and filled for the same user
C22_Witness ==
    /\ currentBatchId = 2
    /\ \E u \in Users :
          /\ FHE_isInitialized(encryptedUserConnections[1][u])
          /\ FHE_isInitialized(encryptedUserConnections[2][u])
    /\ encryptedTotalConnections[1] # FHE_asEuint32_0

\* the aggregate of the context's batch is still the one that was snapshotted
SnapshotMatches(r) ==
    hashCiphertexts(<<FHE_toBytes32(
        encryptedTotalConnections[decryptionContexts[r].batchId])>>)
        = decryptionContexts[r].stateHash

\* C23 (requests for one batch are independent): each request has a context
\* of its own.  A transaction changes at most one context; a new request leaves
\* every existing context as it is; a callback that goes through changes
\* the context of its own request id only; and a pending request whose
\* snapshot still matches can be completed, once, whether another request
\* for the same batch is pending or completed.
C23_SiblingState ==
    \A r, q \in RequestIds :
        (r # q /\ Issued(r) /\ Issued(q)
         /\ decryptionContexts[r].batchId = decryptionContexts[q].batchId) =>
            /\ Len(completions[q]) <= 1
            /\ (~decryptionContexts[q].processed /\ SnapshotMatches(q))
                   => HonestAnswerAccepted(q)

C23_SiblingStep ==
    txCount' # txCount =>
       /\ decryptionContexts' # decryptionContexts =>
             \E r \in RequestIds :
                 /\ \A q \in RequestIds \ {r} : decryptionContexts'[q] = decryptionContexts[q]
                 /\ \/ ~Issued(r) /\ requestLog' # requestLog
                    \/ Issued(r) /\ completions'[r] # completions[r]
       /\ requestLog' # requestLog =>
             \A q \in RequestIds : Issued(q) => decryptionContexts'[q] = decryptionContexts[q]
       /\ \A r \in RequestIds :
             completions'[r] # completions[r] =>
                 \A q \in RequestIds \ {r} : decryptionContexts'[q] = decryptionContexts[q]

C23_IndependentRequests == []C23_SiblingState /\ [][C23_SiblingStep]_vars

\* two requests for the same batch, with the same snapshot, both completed
C23_Witness ==
    \E r, q \in RequestIds :
        /\ r # q
        /\ decryptionContexts[r].batchId = decryptionContexts[q].batchId
        /\ decryptionContexts[r].stateHash = decryptionContexts[q].stateHash
        /\ completions[r] # <<>> /\ completions[q] # <<>>

\* C24 (contexts are append-only): the context of every request that was
\* issued exists and holds the batch id of its DecryptionRequested event and
\* the hash of the handles sent to the oracle with it, whatever has happened
\* since; its processed flag is true exactly when a callback for that id
\* went through, so a request without one is pending after every other
\* operation; an id that was never issued has no context.
C24_ContextsAppendOnly ==
    /\ \A i \in 1 .. Len(requestLog) :
          LET r == requestLog[i].requestId
          IN  /\ r = i
              /\ Issued(r)
              /\ decryptionContexts[r].batchId = requestLog[i].batchId
              /\ decryptionContexts[r].stateHash = hashCiphertexts(oracleRequests[r])
              /\ decryptionContexts[r].processed <=> completions[r] # <<>>
    /\ \A r \in RequestIds :
          r > Len(requestLog) => decryptionContexts[r] = EmptyContext

\* the first request is still pending after a later request was issued and
\* completed, a provider was added and the contract was paused
C24_Witness ==
    /\ Len(requestLog) >= 2
    /\ ~decryptionContexts[1].processed
    /\ completions[2] # <<>>
    /\ isProvider[Other]
    /\ paused

\* C25 (batch ids): currentBatchId is 0 before the first transaction and is
\* the number of openBatch calls that went through, so it never decreases
\* and moves by one with each of them and with nothing else; the ids of the
\* BatchOpened events are 1, 2, 3, ... in order, and currentBatchId is the
\* id of the last of them, be that batch open or closed.
C25_BatchIdsCount ==
    /\ txCount = 0 => currentBatchId = 0
    /\ currentBatchId = Cardinality({i \in 1 .. Len(batchLog) : batchLog[i] = "open"})
    /\ Len(openedIds) = currentBatchId
    /\ \A i \in 1 .. Len(openedIds) : openedIds[i] = i
    /\ openedIds # <<>> => currentBatchId = openedIds[Len(openedIds)]

\* two batches were opened and the second one is closed again
C25_Witness ==
    /\ openedIds = <<1, 2>>
    /\ ~batchOpen
    /\ submissionCount > 0

\* C26 (order of the callback's checks): replay, then snapshot, then proof.
\* For a processed request every callback reverts with ReplayAttempt, also
\* when the aggregate has changed since or the proof is invalid; for an
\* unprocessed request whose snapshot no longer matches every callback
\* reverts with StateMismatch, also when the proof is invalid; InvalidProof
\* is the error exactly when the request is unprocessed, the snapshot
\* matches and the proof does not verify.
C26_CheckOrder ==
    \A r \in RequestIds :
        \A in \in CallbackInputs(r) :
            LET e == myCallbackError(r, in[1], in[2])
                verifies == FHE_checkSignatures(r, in[1], in[2])
            IN  /\ decryptionContexts[r].processed => e = "ReplayAttempt"
                /\ (~decryptionContexts[r].processed /\ ~SnapshotMatches(r))
                       => e = "StateMismatch"
                /\ e = "InvalidProof" <=>
                       (~decryptionContexts[r].processed /\ SnapshotMatches(r) /\ ~verifies)

\* one request is processed and its batch has changed since, another is
\* pending with a stale snapshot; invalid proofs are on offer for both
C26_Witness ==
    \E r, q \in RequestIds :
        /\ decryptionContexts[r].processed /\ ~SnapshotMatches(r)
        /\ Issued(q) /\ ~decryptionContexts[q].processed /\ ~SnapshotMatches(q)
        /\ ForgedProof \in ProofChoices(r) \cap ProofChoices(q)

\* C27 (a rejected callback does not consume the request): in every state in
\* which a callback for a request is rejected with InvalidProof the request
\* is unprocessed, and, the rejection having changed nothing, the callback
\* with the valid proof is accepted in that same state; processed is set by
\* a callback that went through and by nothing else.
C27_RejectionKeepsRequest ==
    \A r \in RequestIds :
        /\ decryptionContexts[r].processed <=> completions[r] # <<>>
        /\ (Issued(r) /\ ~decryptionContexts[r].processed /\ SnapshotMatches(r))
               => HonestAnswerAccepted(r)
        /\ \A in \in CallbackInputs(r) :
              myCallbackError(r, in[1], in[2]) = "InvalidProof" =>
                  /\ Issued(r)
                  /\ ~decryptionContexts[r].processed
                  /\ HonestAnswerAccepted(r)

\* a pending request meets InvalidProof for a forged proof and for the KMS
\* proof of another payload, the contract being paused meanwhile
C27_Witness ==
    \E r \in RequestIds :
        /\ Issued(r)
        /\ myCallbackError(r, TrueCleartexts(r), ForgedProof) = "InvalidProof"
        /\ myCallbackError(r, BogusCleartexts,
                           KmsSign(oracleRequests[r], TrueCleartexts(r))) = "InvalidProof"
        /\ paused

\* C28 (the callback is gated by the proof, not by the caller): on every step
\* that completes a request, for every request id, payload and proof, the
\* step is the step of that callback sent by one caller exactly when it is
\* the step of that callback sent by any other caller, be it the owner, a
\* provider or an address with no role; and the step is the step of a
\* callback with a valid proof and a matching snapshot that each caller,
\* provider or not, could have sent.
C28_CallerStep ==
    completions' # completions =>
       /\ \A r \in RequestIds :
             \A in \in CallbackInputs(r) :
                 \A s, t \in Callers :
                     myCallback(s, r, in[1], in[2]) <=> myCallback(t, r, in[1], in[2])
       /\ \E r \in RequestIds :
              \E in \in CallbackInputs(r) :
                  /\ in[2] = KmsSign(oracleRequests[r], in[1])
                  /\ SnapshotMatches(r)
                  /\ \A s \in Callers : myCallback(s, r, in[1], in[2])

C28_ProofNotCaller == [][C28_CallerStep]_vars

\* a request was completed while the owner is no longer a provider and the
\* other caller is none either
C28_Witness ==
    /\ \A s \in Callers : ~isProvider[s]
    /\ \E r \in RequestIds : completions[r] # <<>>

\* the request ids for which a DecryptionRequested was emitted
RequestedIds == {requestLog[i].requestId : i \in 1 .. Len(requestLog)}

\* everything a caller can present to the callback, the payloads and the KMS
\* proofs of the other requests included
AnyCleartexts == {BogusCleartexts} \cup {TrueCleartexts(q) : q \in RequestedIds}

AnyProofs ==
    {ForgedProof} \cup {KmsSign(oracleRequests[q], TrueCleartexts(q)) : q \in RequestedIds}

\* C29 (no completion without a request): a callback for a request id that
\* requestTotalConnectionsDecryption never issued is rejected whatever payload
\* and proof it carries, those of the issued requests included, and that id
\* has no completion and no processed context; every DecryptionCompleted and
\* every processed context belongs to an id for which a DecryptionRequested
\* was emitted, and the completion carries the batch id of that request.
C29_NoCompletionWithoutRequest ==
    \A r \in RequestIds :
        /\ r \notin RequestedIds =>
              /\ completions[r] = <<>>
              /\ ~decryptionContexts[r].processed
              /\ \A c \in AnyCleartexts, p \in AnyProofs :
                    myCallbackError(r, c, p) # "ok"
        /\ decryptionContexts[r].processed => r \in RequestedIds
        /\ \A i \in 1 .. Len(completions[r]) :
              \E j \in 1 .. Len(requestLog) :
                  /\ requestLog[j].requestId = r
                  /\ completions[r][i].requestId = r
                  /\ completions[r][i].batchId = requestLog[j].batchId

\* a request for an earlier batch was completed after a later batch was
\* opened, and its payload and proof are rejected for an id never issued
C29_Witness ==
    \E r \in RequestIds, q \in RequestIds :
        /\ completions[r] # <<>>
        /\ completions[r][1].batchId < currentBatchId
        /\ q \notin RequestedIds
        /\ myCallbackError(q, completions[r][1].totalConnections,
                           KmsSign(oracleRequests[r], completions[r][1].totalConnections))
               \in {"StateMismatch", "InvalidProof"}

\* C30 (a request for a closed batch can always be completed): whatever ran
\* since a request was issued for a batch that was closed by then, the
\* batch's aggregate is still the snapshotted one, no callback for the
\* request is rejected with StateMismatch, the callback with the valid proof
\* is accepted as long as the request is unprocessed, and once it has been
\* accepted the request is processed and has exactly one completion.
C30_ClosedBatchRequestCompletes ==
    \A r \in RequestIds :
        (r \in RequestedIds /\ closedAtRequest[r]) =>
            /\ SnapshotMatches(r)
            /\ \A c \in AnyCleartexts, p \in AnyProofs :
                  myCallbackError(r, c, p) # "StateMismatch"
            /\ IF decryptionContexts[r].processed
               THEN Len(completions[r]) = 1
               ELSE completions[r] = <<>> /\ HonestAnswerAccepted(r)

\* a request for a closed batch was completed after a later batch had been
\* opened and filled
C30_Witness ==
    \E r \in RequestIds :
        /\ closedAtRequest[r]
        /\ decryptionContexts[r].processed
        /\ completions[r] # <<>>
        /\ decryptionContexts[r].batchId < currentBatchId
        /\ encryptedTotalConnections[currentBatchId]
               # encryptedTotalConnections[decryptionContexts[r].batchId]

\* C31 as stated (staleness is permanent): once the batch of a request took a
\* submission after the request was issued, every callback for that request
\* id, whatever its payload and proof, fails with StateMismatch.
C31_StaleAlwaysStateMismatch ==
    \A r \in RequestIds :
        submittedAfter[r] =>
            \A c \in AnyCleartexts, p \in AnyProofs :
                myCallbackError(r, c, p) = "StateMismatch"

\* C31 (staleness is permanent), amended: once the batch of a request took a
\* submission after the request was issued, the batch's aggregate never again
\* is the snapshotted one, and every callback for that request id, whatever
\* its payload and proof, fails: with StateMismatch when the request was
\* unprocessed at the submission, and it then stays unprocessed and without a
\* completion for good; with ReplayAttempt when the request had been
\* completed before the submission.  A request that is pending and whose
\* batch took no submission since it was issued accepts the honest answer.
C31_StaleState ==
    \A r \in RequestIds :
        /\ submittedAfter[r] =>
              /\ r \in RequestedIds
              /\ ~SnapshotMatches(r)
              /\ submittedSince[r] <=> ~decryptionContexts[r].processed
              /\ submittedSince[r] => completions[r] = <<>>
              /\ \A c \in AnyCleartexts, p \in AnyProofs :
                    myCallbackError(r, c, p) =
                        IF submittedSince[r] THEN "StateMismatch" ELSE "ReplayAttempt"
        /\ submittedSince[r] => submittedAfter[r]
        /\ (r \in RequestedIds /\ ~submittedAfter[r] /\ ~decryptionContexts[r].processed)
               => HonestAnswerAccepted(r)

\* no transaction takes a request out of staleness
C31_StaleStep ==
    txCount' # txCount =>
        \A r \in RequestIds :
            /\ submittedAfter[r] => submittedAfter'[r]
            /\ submittedSince[r] =>
                  /\ submittedSince'[r]
                  /\ decryptionContexts'[r] = decryptionContexts[r]
                  /\ completions'[r] = <<>>

C31_StalenessPermanent == []C31_StaleState /\ [][C31_StaleStep]_vars

\* a request went stale while pending and still meets StateMismatch for its
\* KMS-signed answer, while a request for the same batch issued after the
\* submission was completed
C31_Witness ==
    \E r, q \in RequestIds :
        /\ r # q
        /\ submittedSince[r]
        /\ decryptionContexts[q].batchId = decryptionContexts[r].batchId
        /\ ~submittedAfter[q]
        /\ completions[q] # <<>>
        /\ myCallbackError(r, TrueCleartexts(r),
                           KmsSign(oracleRequests[r], TrueCleartexts(r))) = "StateMismatch"

====
